---- MODULE Spec2Model ----
(***************************************************************************)
(* The two NaiveSemaphore variants of this repository:                     *)
(*   "naive"  : naive_semaphore/src/naive_semaphore.rs  (AtomicUsize       *)
(*              counter, wait() keeps the is_locked mutex until it returns)*)
(*   "simple" : simple_semaphore/src/simple_semaphore.rs (Mutex<usize>     *)
(*              counter, wait() drops the is_locked mutex before it counts)*)
(* Threads are the callers.  A lock() call and the code that follows it up *)
(* to the next lock(), Condvar operation or counter access is one step:    *)
(* the step is enabled only when the mutex is free.                        *)
(***************************************************************************)
EXTENDS Integers, FiniteSets, Sequences, TLC

\* ---- bounds of the model ----
NumThreads == 4        \* callers in the disciplined specifications
MaxCap == 2            \* largest capacity 'max' tried
LiveThreads == 2       \* callers in the fair specification
FreeThreads == 2       \* callers in the undisciplined specifications
MaxOps == 2            \* wait()/release_one() calls per undisciplined caller
UsizeBits == 5         \* width given to usize (the counter wraps at 2^UsizeBits)

UsizeModulus == 2 ^ UsizeBits
Threads == 1 .. NumThreads
NoOwner == 0

VARIABLES
  variant,      \* "naive" or "simple": which source file is modelled
  max,          \* NaiveSemaphore.max
  n,            \* number of callers of this run (threads 1..n)
  disciplined,  \* TRUE: each caller does wait() then release_one(), once
  spurious,     \* TRUE: Condvar::wait may also return without a notify
  current,      \* NaiveSemaphore.current (the counter)
  is_locked,    \* value inside the is_locked mutex (the "full" flag)
  flagOwner,    \* thread holding the is_locked mutex, or NoOwner
  curOwner,     \* thread holding the current mutex (simple only), or NoOwner
  waiter,       \* threads parked on the Condvar 'waiter'
  pc,           \* position of each thread
  calls         \* wait()/release_one() calls each thread has started

vars == <<variant, max, n, disciplined, spurious, current, is_locked, flagOwner,
          curOwner, waiter, pc, calls>>

params == <<variant, max, n, disciplined, spurious>>

\* NaiveSemaphore::new: counter 0, flag false, nobody parked.
New(v, m, k, d, s) ==
  /\ variant = v /\ max = m /\ n = k /\ disciplined = d /\ spurious = s
  /\ current = 0
  /\ is_locked = FALSE
  /\ flagOwner = NoOwner
  /\ curOwner = NoOwner
  /\ waiter = {}
  /\ pc = [t \in Threads |-> "idle"]
  /\ calls = [t \in Threads |-> 0]

\* Disciplined runs have up to NumThreads callers, undisciplined ones up to
\* FreeThreads.
Init ==
  \E v \in {"naive", "simple"}, m \in 1 .. MaxCap, s \in BOOLEAN :
     \/ \E k \in 1 .. NumThreads : New(v, m, k, TRUE, s)
     \/ \E k \in 1 .. FreeThreads : New(v, m, k, FALSE, s)

\* The harness: a disciplined caller calls wait() first and release_one()
\* second; an undisciplined one calls them in any order, MaxOps times.
MayWait(t) ==
  /\ t <= n /\ pc[t] = "idle"
  /\ IF disciplined THEN calls[t] = 0 ELSE calls[t] < MaxOps

MayRelease(t) ==
  /\ t <= n /\ pc[t] = "idle"
  /\ IF disciplined THEN calls[t] = 1 ELSE calls[t] < MaxOps

StartWait(t) ==
  /\ MayWait(t)
  /\ pc' = [pc EXCEPT ![t] = "w_lock"]
  /\ calls' = [calls EXCEPT ![t] = @ + 1]
  /\ UNCHANGED <<params, current, is_locked, flagOwner, curOwner, waiter>>

StartRelease(t) ==
  /\ MayRelease(t)
  /\ pc' = [pc EXCEPT ![t] = "r_get"]
  /\ calls' = [calls EXCEPT ![t] = @ + 1]
  /\ UNCHANGED <<params, current, is_locked, flagOwner, curOwner, waiter>>

StartCurrentCount(t) ==
  /\ t <= n /\ pc[t] = "idle"
  /\ pc' = [pc EXCEPT ![t] = "cc"]
  /\ UNCHANGED <<params, current, is_locked, flagOwner, curOwner, waiter, calls>>

\* current_count(): an atomic load (naive); lock, clone, unlock (simple).
CurrentCount(t) ==
  /\ pc[t] = "cc"
  /\ variant = "simple" => curOwner = NoOwner
  /\ pc' = [pc EXCEPT ![t] = "idle"]
  /\ UNCHANGED <<params, current, is_locked, flagOwner, curOwner, waiter, calls>>

\* Variant of WaitLock that never looks at the flag (nobody ever parks).
WaitLockNoPark(t) ==
  /\ pc[t] = "w_lock"
  /\ flagOwner = NoOwner
  /\ pc' = [pc EXCEPT ![t] = "w_incr"]
  /\ flagOwner' = IF variant = "naive" THEN t ELSE NoOwner
  /\ UNCHANGED <<params, current, is_locked, curOwner, waiter, calls>>

\* Variant of WaitLock in which simple, too, keeps the is_locked guard
\* (the drop(locked) is missing).
WaitLockKeepsGuard(t) ==
  /\ pc[t] = "w_lock"
  /\ flagOwner = NoOwner
  /\ IF is_locked
       THEN /\ waiter' = waiter \cup {t}
            /\ pc' = [pc EXCEPT ![t] = "w_parked"]
            /\ UNCHANGED flagOwner
       ELSE /\ pc' = [pc EXCEPT ![t] = "w_incr"]
            /\ flagOwner' = t
            /\ UNCHANGED waiter
  /\ UNCHANGED <<params, current, is_locked, curOwner, calls>>

\* wait(): lock is_locked; if the flag is set, park on the Condvar (which
\* releases the mutex).  Otherwise naive keeps the mutex, simple drops it.
WaitLock(t) ==
  /\ pc[t] = "w_lock"
  /\ flagOwner = NoOwner
  /\ IF is_locked
       THEN /\ waiter' = waiter \cup {t}
            /\ pc' = [pc EXCEPT ![t] = "w_parked"]
            /\ UNCHANGED flagOwner
       ELSE /\ pc' = [pc EXCEPT ![t] = "w_incr"]
            /\ flagOwner' = IF variant = "naive" THEN t ELSE NoOwner
            /\ UNCHANGED waiter
  /\ UNCHANGED <<params, current, is_locked, curOwner, calls>>

\* Variant of WaitWake in which simple, too, keeps the guard that
\* Condvar::wait returns (the drop(locked) is missing on this path).
WaitWakeKeepsGuard(t) ==
  /\ pc[t] = "w_woken"
  /\ flagOwner = NoOwner
  /\ pc' = [pc EXCEPT ![t] = "w_incr"]
  /\ flagOwner' = t
  /\ UNCHANGED <<params, current, is_locked, curOwner, waiter, calls>>

\* Variant of WaitWake that tests the flag again ('while' instead of 'if').
WaitWakeRecheck(t) ==
  /\ pc[t] = "w_woken"
  /\ flagOwner = NoOwner
  /\ IF is_locked
       THEN /\ waiter' = waiter \cup {t}
            /\ pc' = [pc EXCEPT ![t] = "w_parked"]
            /\ UNCHANGED flagOwner
       ELSE /\ pc' = [pc EXCEPT ![t] = "w_incr"]
            /\ flagOwner' = IF variant = "naive" THEN t ELSE NoOwner
            /\ UNCHANGED waiter
  /\ UNCHANGED <<params, current, is_locked, curOwner, calls>>

\* wait(): a notified thread re-acquires the mutex inside Condvar::wait and
\* goes on WITHOUT testing the flag again ('if', not 'while').
WaitWake(t) ==
  /\ pc[t] = "w_woken"
  /\ flagOwner = NoOwner
  /\ pc' = [pc EXCEPT ![t] = "w_incr"]
  /\ flagOwner' = IF variant = "naive" THEN t ELSE NoOwner
  /\ UNCHANGED <<params, current, is_locked, curOwner, waiter, calls>>

\* wait(): count the caller.  simple locks the counter mutex first.
WaitIncr(t) ==
  /\ pc[t] = "w_incr"
  /\ variant = "simple" => curOwner = NoOwner
  /\ current' = (current + 1) % UsizeModulus
  /\ curOwner' = IF variant = "simple" THEN t ELSE NoOwner
  /\ pc' = [pc EXCEPT ![t] = "w_check"]
  /\ UNCHANGED <<params, is_locked, flagOwner, waiter, calls>>

\* Variant of WaitCheck whose comparison is off by one (the flag is set one
\* caller early).
WaitCheckOffByOne(t) ==
  /\ pc[t] = "w_check"
  /\ IF current + 1 >= max
       THEN /\ flagOwner = (IF variant = "naive" THEN t ELSE NoOwner)
            /\ is_locked' = TRUE
       ELSE UNCHANGED is_locked
  /\ flagOwner' = NoOwner
  /\ curOwner' = NoOwner
  /\ pc' = [pc EXCEPT ![t] = "idle"]
  /\ UNCHANGED <<params, current, waiter, calls>>

\* Variant of WaitCheck that sets the flag whatever the count is.
WaitCheckAlways(t) ==
  /\ pc[t] = "w_check"
  /\ flagOwner = (IF variant = "naive" THEN t ELSE NoOwner)
  /\ is_locked' = TRUE
  /\ flagOwner' = NoOwner
  /\ curOwner' = NoOwner
  /\ pc' = [pc EXCEPT ![t] = "idle"]
  /\ UNCHANGED <<params, current, waiter, calls>>

\* wait(): if the count reached max, set the flag (simple locks is_locked
\* for that, naive still holds it); then every guard is dropped.
WaitCheck(t) ==
  /\ pc[t] = "w_check"
  /\ IF current >= max
       THEN /\ flagOwner = (IF variant = "naive" THEN t ELSE NoOwner)
            /\ is_locked' = TRUE
       ELSE UNCHANGED is_locked
  /\ flagOwner' = NoOwner
  /\ curOwner' = NoOwner
  /\ pc' = [pc EXCEPT ![t] = "idle"]
  /\ UNCHANGED <<params, current, waiter, calls>>

\* Variant of NotifyOne that wakes every parked thread (notify_all).
NotifyAll(t) ==
  /\ waiter' = {}
  /\ pc' = [u \in Threads |->
              IF u = t THEN "r_decr"
              ELSE IF u \in waiter THEN "w_woken" ELSE pc[u]]

\* Condvar::notify_one: one parked thread, if any, is made runnable.
NotifyOne(t) ==
  IF waiter = {}
    THEN /\ waiter' = waiter
         /\ pc' = [pc EXCEPT ![t] = "r_decr"]
    ELSE \E p \in waiter :
           /\ waiter' = waiter \ {p}
           /\ pc' = [pc EXCEPT ![t] = "r_decr", ![p] = "w_woken"]

\* Variant of ReleaseGet in which simple does not keep the counter mutex
\* between the test and the decrement.
ReleaseGetDropsGuard(t) ==
  /\ pc[t] = "r_get"
  /\ variant = "simple" => curOwner = NoOwner
  /\ pc' = [pc EXCEPT ![t] = IF current >= 1 THEN "r_lock" ELSE "idle"]
  /\ UNCHANGED <<params, current, is_locked, flagOwner, curOwner, waiter, calls>>

\* Variant of ReleaseGet whose guard is off by one (current > 1).
ReleaseGetOffByOne(t) ==
  /\ pc[t] = "r_get"
  /\ variant = "simple" => curOwner = NoOwner
  /\ IF current > 1
       THEN /\ pc' = [pc EXCEPT ![t] = "r_lock"]
            /\ curOwner' = IF variant = "simple" THEN t ELSE NoOwner
       ELSE /\ pc' = [pc EXCEPT ![t] = "idle"]
            /\ UNCHANGED curOwner
  /\ UNCHANGED <<params, current, is_locked, flagOwner, waiter, calls>>

\* Variant of ReleaseGet without the 'counter positive' guard.
ReleaseGetNoGuard(t) ==
  /\ pc[t] = "r_get"
  /\ variant = "simple" => curOwner = NoOwner
  /\ pc' = [pc EXCEPT ![t] = "r_lock"]
  /\ curOwner' = IF variant = "simple" THEN t ELSE NoOwner
  /\ UNCHANGED <<params, current, is_locked, flagOwner, waiter, calls>>

\* release_one(): read the counter (simple: under the counter mutex, which
\* it keeps); return at once when it is 0.
ReleaseGet(t) ==
  /\ pc[t] = "r_get"
  /\ variant = "simple" => curOwner = NoOwner
  /\ IF current >= 1
       THEN /\ pc' = [pc EXCEPT ![t] = "r_lock"]
            /\ curOwner' = IF variant = "simple" THEN t ELSE NoOwner
       ELSE /\ pc' = [pc EXCEPT ![t] = "idle"]
            /\ UNCHANGED curOwner
  /\ UNCHANGED <<params, current, is_locked, flagOwner, waiter, calls>>

\* Variant of ReleaseLock that notifies but does not clear the flag.
ReleaseLockNoClear(t) ==
  /\ pc[t] = "r_lock"
  /\ flagOwner = NoOwner
  /\ flagOwner' = t
  /\ IF is_locked
       THEN NotifyOne(t)
       ELSE /\ UNCHANGED waiter
            /\ pc' = [pc EXCEPT ![t] = "r_decr"]
  /\ UNCHANGED <<params, current, is_locked, curOwner, calls>>

\* Variant of ReleaseLock whose decrement sits inside the 'if *is_locked'
\* block: on an open gate the call returns without decrementing.
ReleaseLockDecrInside(t) ==
  /\ pc[t] = "r_lock"
  /\ flagOwner = NoOwner
  /\ IF is_locked
       THEN /\ is_locked' = FALSE
            /\ flagOwner' = t
            /\ NotifyOne(t)
            /\ UNCHANGED curOwner
       ELSE /\ UNCHANGED <<is_locked, waiter, flagOwner>>
            /\ curOwner' = NoOwner
            /\ pc' = [pc EXCEPT ![t] = "idle"]
  /\ UNCHANGED <<params, current, calls>>

\* release_one(): lock is_locked; if the flag is set, clear it and notify.
ReleaseLock(t) ==
  /\ pc[t] = "r_lock"
  /\ flagOwner = NoOwner
  /\ flagOwner' = t
  /\ IF is_locked
       THEN /\ is_locked' = FALSE
            /\ NotifyOne(t)
       ELSE /\ UNCHANGED <<is_locked, waiter>>
            /\ pc' = [pc EXCEPT ![t] = "r_decr"]
  /\ UNCHANGED <<params, current, curOwner, calls>>

\* release_one(): decrement (fetch_sub / -= 1 on usize) and drop the guards.
ReleaseDecr(t) ==
  /\ pc[t] = "r_decr"
  /\ current' = (current - 1) % UsizeModulus
  /\ flagOwner' = NoOwner
  /\ curOwner' = NoOwner
  /\ pc' = [pc EXCEPT ![t] = "idle"]
  /\ UNCHANGED <<params, is_locked, waiter, calls>>

\* Condvar::wait is allowed to return without any notify.
SpuriousWake(t) ==
  /\ spurious
  /\ pc[t] = "w_parked"
  /\ waiter' = waiter \ {t}
  /\ pc' = [pc EXCEPT ![t] = "w_woken"]
  /\ UNCHANGED <<params, current, is_locked, flagOwner, curOwner, calls>>

\* wait()'s increment and its 'count >= max, so set the flag' taken as one
\* step (the granularity of the capacity-bound property).
WaitIncrCheck(t) ==
  /\ pc[t] = "w_incr"
  /\ variant = "simple" => curOwner = NoOwner
  /\ current' = (current + 1) % UsizeModulus
  /\ IF current' >= max
       THEN /\ flagOwner = (IF variant = "naive" THEN t ELSE NoOwner)
            /\ is_locked' = TRUE
       ELSE UNCHANGED is_locked
  /\ flagOwner' = NoOwner
  /\ curOwner' = NoOwner
  /\ pc' = [pc EXCEPT ![t] = "idle"]
  /\ UNCHANGED <<params, waiter, calls>>

\* The steps inside a call (every step but the start of a call).
Step(t) ==
  \/ CurrentCount(t)
  \/ WaitLock(t)
  \/ WaitWake(t)
  \/ WaitIncr(t)
  \/ WaitCheck(t)
  \/ ReleaseGet(t)
  \/ ReleaseLock(t)
  \/ ReleaseDecr(t)

Next ==
  \E t \in Threads :
     \/ StartWait(t)
     \/ StartRelease(t)
     \/ StartCurrentCount(t)
     \/ CurrentCount(t)
     \/ WaitLock(t)
     \/ WaitWake(t)
     \/ SpuriousWake(t)
     \/ WaitIncr(t)
     \/ WaitCheck(t)
     \/ ReleaseGet(t)
     \/ ReleaseLock(t)
     \/ ReleaseDecr(t)

NextAtomic ==
  \E t \in Threads :
     \/ StartWait(t)
     \/ StartRelease(t)
     \/ StartCurrentCount(t)
     \/ CurrentCount(t)
     \/ WaitLock(t)
     \/ WaitWake(t)
     \/ SpuriousWake(t)
     \/ WaitIncrCheck(t)
     \/ ReleaseGet(t)
     \/ ReleaseLock(t)
     \/ ReleaseDecr(t)

Spec == Init /\ [][Next]_vars

SpecAtomic == Init /\ [][NextAtomic]_vars

\* Threads are preemptible OS threads: a thread that can take a step inside
\* a call takes it.  A caller is free never to make its next call, and a
\* spurious wakeup is never guaranteed.
InitLive ==
  \E v \in {"naive", "simple"}, m \in 1 .. MaxCap, s \in BOOLEAN,
     k \in 1 .. LiveThreads : New(v, m, k, TRUE, s)

FairSteps ==
  /\ InitLive
  /\ [][Next]_vars
  /\ \A t \in Threads : WF_vars(Step(t))

TypeOK ==
  /\ variant \in {"naive", "simple"}
  /\ max \in 1 .. MaxCap
  /\ current \in 0 .. UsizeModulus - 1
  /\ is_locked \in BOOLEAN
  /\ flagOwner \in {NoOwner} \cup Threads
  /\ curOwner \in {NoOwner} \cup Threads
  /\ waiter \subseteq Threads

\* ---- vocabulary of the properties ----
Callers == {t \in Threads : t <= n}

\* t is outside every wait()/release_one() call.
Outside(t) == pc[t] \in {"idle", "cc"}

\* t has returned from wait() and has not called release_one() yet.
Admitted(t) == disciplined /\ t \in Callers /\ calls[t] = 1 /\ Outside(t)

\* t has returned from both of its calls.
Finished(t) == disciplined /\ calls[t] = 2 /\ Outside(t)

\* No wait() and no release_one() is in the middle of its execution.
Quiescent == \A t \in Threads : Outside(t)

\* C1: under disciplined use the counter never exceeds max, wait()'s
\* increment and flag update being one step (checked under SpecAtomic).
CapacityBound == disciplined => current <= max

\* C1 per variant, without spurious wakeups.
CapacityBoundNaive ==
  (disciplined /\ ~spurious /\ variant = "naive") => current <= max
CapacityBoundSimple ==
  (disciplined /\ ~spurious /\ variant = "simple") => current <= max

\* C3: naive, max = 1, two callers, no spurious wakeup: never two callers
\* between their wait() and their release_one().
MutexNaive ==
  (disciplined /\ ~spurious /\ variant = "naive" /\ max = 1 /\ n = 2)
     => Cardinality({t \in Callers : Admitted(t)}) <= 1

\* C3 witness: one caller is admitted while the other is parked.
MutexNaiveWitness ==
  /\ disciplined /\ ~spurious /\ variant = "naive" /\ max = 1 /\ n = 2
  /\ \E a, b \in Callers : Admitted(a) /\ pc[b] = "w_parked"

\* C4: simple, max = 1, two callers: never two callers between their
\* wait() and their release_one().
MutexSimple ==
  (disciplined /\ ~spurious /\ variant = "simple" /\ max = 1 /\ n = 2)
     => Cardinality({t \in Callers : Admitted(t)}) <= 1

\* C5: when no call is in progress and the counter is at or above max, the
\* flag is set (so that an arriving wait() would park).
FullAtCapacity ==
  (disciplined /\ ~spurious /\ Quiescent /\ current >= max) => is_locked

\* C6: once every caller has finished its wait() and its release_one(), the
\* counter is 0.
CounterReturnsToZero ==
  (disciplined /\ \A t \in Callers : Finished(t)) => current = 0

\* C6 witness: all of NumThreads callers have finished.
CounterReturnsToZeroWitness ==
  /\ disciplined /\ n = NumThreads /\ max < n
  /\ \A t \in Callers : Finished(t)
  /\ current = 0

\* C2: every disciplined caller eventually completes, so no caller is ever
\* left parked when every other caller has finished both of its calls (no
\* release_one() can come any more) and no spurious wakeup is possible.
NoStrandedCaller ==
  (disciplined /\ ~spurious)
     => ~ \E p \in Callers :
            /\ pc[p] = "w_parked"
            /\ \A t \in Callers \ {p} : Finished(t) \/ pc[t] = "w_parked"

\* C7: in the naive variant the counter is never decremented at 0 (it never
\* wraps around), whatever the callers do.
NoUnderflowNaive ==
  [][(variant = "naive" /\ current = 0) => current' # UsizeModulus - 1]_vars

\* A release_one() call of t reads the counter as 0 in this step.
ReadsZero(t) == pc[t] = "r_get" /\ pc'[t] # "r_get" /\ current = 0

\* C8: with disciplined callers the flag is false whenever the counter is
\* 0, and a release_one() that reads the counter as 0 returns having
\* changed nothing and woken nobody.
EmptyReleaseNoOp ==
  /\ [](disciplined /\ current = 0 => ~is_locked)
  /\ [][\A t \in Threads : ReadsZero(t) =>
           /\ pc' = [pc EXCEPT ![t] = "idle"]
           /\ UNCHANGED <<current, is_locked, waiter, flagOwner, curOwner>>]_vars

\* C8 witness: the only call made so far is a release_one() of t, it has
\* returned, the counter is 0 and the flag is false.
EmptyReleaseNoOpWitness ==
  /\ ~disciplined /\ current = 0 /\ ~is_locked
  /\ \E t \in Callers :
        /\ calls[t] = 1 /\ pc[t] = "idle"
        /\ \A u \in Callers \ {t} : calls[u] = 0 /\ pc[u] = "idle"

\* Threads that leave the Condvar in this step.
Unparked == waiter \ waiter'

\* t is inside release_one().
InRelease(t) == pc[t] \in {"r_get", "r_lock", "r_decr"}

\* C9: without spurious wakeups, the release_one() step that finds the flag
\* set while callers are parked clears the flag and unparks exactly one of
\* them; no step of a release_one() unparks more than one caller, and one
\* that finds the flag clear unparks none.
SingleWakeup ==
  [][~spurious =>
       /\ \A t \in Threads :
            (pc[t] = "r_lock" /\ pc'[t] # "r_lock") =>
               IF is_locked /\ waiter # {}
                 THEN /\ ~is_locked'
                      /\ Cardinality(Unparked) = 1
                      /\ waiter' = waiter \ Unparked
                      /\ \A p \in Unparked : pc'[p] = "w_woken"
                      /\ \A p \in waiter' : pc'[p] = "w_parked"
                 ELSE Unparked = {}
       /\ Cardinality(Unparked) <= 1
       /\ Unparked # {} => \E t \in Threads : pc[t] = "r_lock" /\ pc'[t] = "r_decr"]_vars

\* C9 witness: a release_one() has just notified: one caller is woken and
\* another is still parked.
SingleWakeupWitness ==
  /\ ~spurious
  /\ \E t, p, q \in Threads :
        /\ pc[t] = "r_decr" /\ flagOwner = t
        /\ pc[p] = "w_woken" /\ pc[q] = "w_parked" /\ q \in waiter

\* C10: every started release_one() or current_count() call returns, and
\* only threads inside wait() are ever parked on the Condvar (checked under
\* FairSteps).
ReleaseAndCountReturn ==
  /\ \A t \in Threads : (InRelease(t) \/ pc[t] = "cc") ~> (pc[t] = "idle")
  /\ [](\A t \in waiter : pc[t] = "w_parked")

\* C10 witness: a release_one() waits for the is_locked mutex, which another
\* thread holds.
ReleaseAndCountReturnWitness ==
  \E t, u \in Callers :
     /\ u # t
     /\ pc[t] = "r_lock" /\ flagOwner = u

\* t has done its increment in wait() and not yet its decrement in
\* release_one() (disciplined callers).
Counted(t) ==
  \/ calls[t] = 1 /\ pc[t] \in {"w_check", "idle", "cc"}
  \/ calls[t] = 2 /\ InRelease(t)

\* C11: under disciplined use the counter equals the number of callers that
\* have incremented in wait() and not yet decremented in release_one().
CounterIsRunning ==
  disciplined => current = Cardinality({t \in Callers : Counted(t)})

\* C11 witness: three callers are counted, one of them inside release_one(),
\* and another caller has already left.
CounterIsRunningWitness ==
  /\ disciplined /\ current = 3
  /\ \E t \in Callers : pc[t] = "r_lock"
  /\ \E t \in Callers : Finished(t)

\* C12: with at most max disciplined callers no wait() ever parks.
NoParkBelowCapacity ==
  (disciplined /\ n <= max)
     => /\ waiter = {}
        /\ \A t \in Threads : pc[t] \notin {"w_parked", "w_woken"}

\* C12 witness: n = max >= 2 callers are all admitted and the flag is set.
NoParkBelowCapacityWitness ==
  /\ disciplined /\ n = max /\ n >= 2
  /\ \A t \in Callers : Admitted(t)
  /\ is_locked /\ current = max

\* The changes of the flag a step may make.
GateStep ==
  /\ (~is_locked /\ is_locked') =>
        (\E t \in Threads :
            pc[t] = "w_check" /\ pc'[t] = "idle" /\ current >= max)
  /\ (is_locked /\ ~is_locked') =>
        (\E t \in Threads : pc[t] = "r_lock" /\ pc'[t] = "r_decr")
  /\ \A t \in Threads :
        (pc[t] # pc'[t] /\ pc[t] \in {"idle", "cc", "w_lock", "w_woken",
                                      "w_incr", "r_get", "r_decr"})
           => is_locked' = is_locked
  /\ \A t \in Threads :
        (pc[t] = "w_check" /\ pc'[t] = "idle" /\ current < max)
           => is_locked' = is_locked

\* C13: the flag is false initially; it becomes true only in the step of a
\* wait() that has incremented and finds the counter >= max, and it becomes
\* false only in the step of a release_one() that read a positive counter
\* and locked the flag; no other step changes it.
GateStateMachine == ~is_locked /\ [][GateStep]_vars

\* C13 witness: the gate is open again after it was full: a release_one()
\* has just cleared the flag and still has to decrement.
GateStateMachineWitness ==
  /\ ~is_locked /\ current >= max
  /\ \E t \in Threads : pc[t] = "r_decr" /\ flagOwner = t
  /\ \E p \in Threads : pc[p] = "w_woken"

WokenStep ==
  \A t \in Threads :
     /\ (pc[t] = "w_woken" /\ pc'[t] # "w_woken") => pc'[t] = "w_incr"
     /\ (pc[t] # "w_parked" /\ pc'[t] = "w_parked") => pc[t] = "w_lock"
     /\ (pc[t] = "w_incr" /\ pc'[t] # "w_incr") =>
           /\ pc'[t] = "w_check"
           /\ current' = (current + 1) % UsizeModulus
     /\ (pc[t] = "w_check" /\ pc'[t] # "w_check") => pc'[t] = "idle"

\* C15: a caller parks only at the flag test of wait(), so at most once per
\* call; once woken it goes on to increment the counter and to return,
\* whatever the flag is then.
WokenIsAdmitted == [][WokenStep]_vars

\* C15 witness: naive, no spurious wakeup: a caller has incremented while
\* the flag was set (it holds the mutex since it resumed, so it was parked
\* and another caller set the flag again before it resumed).
WokenIsAdmittedWitness ==
  /\ variant = "naive" /\ ~spurious /\ disciplined
  /\ \E t \in Callers : pc[t] = "w_check" /\ flagOwner = t /\ is_locked

\* The effect of the two locked steps of a release_one() call.
ReleaseEffect ==
  \A t \in Threads :
     /\ (pc[t] = "r_lock" /\ pc'[t] # "r_lock") =>
           /\ ~is_locked'
           /\ current' = current
           /\ ~is_locked =>
                 /\ waiter' = waiter
                 /\ \A u \in Threads \ {t} : pc'[u] = pc[u]
     /\ (pc[t] = "r_decr" /\ pc'[t] # "r_decr") =>
           /\ current' = current - 1
           /\ is_locked' = is_locked
           /\ waiter' = waiter
           /\ \A u \in Threads \ {t} : pc'[u] = pc[u]

\* C16: a release_one() that read a positive counter and finds the flag
\* clear leaves it clear and wakes nobody; with the flag clear or set, the
\* call decreases the counter by exactly 1 and changes nothing else.
ReleaseOnlyDecrements == [][ReleaseEffect]_vars

\* C16 restricted to the runs without a counter underflow (disciplined
\* callers, or the simple variant).
ReleaseOnlyDecrementsDisciplined ==
  [][(disciplined \/ variant = "simple") => ReleaseEffect]_vars

\* C17: under disciplined use, whenever nobody holds the is_locked mutex,
\* a set flag implies that the counter is at least max.
FullImpliesAtCapacity ==
  (disciplined /\ flagOwner = NoOwner /\ is_locked) => current >= max

\* C17 witness: the flag is set again after a release: a caller has
\* finished, another one is parked, the counter is at max.
FullImpliesAtCapacityWitness ==
  /\ disciplined /\ flagOwner = NoOwner /\ is_locked /\ current = max
  /\ \E t \in Callers : Finished(t)
  /\ \E p \in Callers : pc[p] = "w_parked"

\* C18: in the simple variant release_one() decrements only while the
\* counter is positive, whatever the callers do: the counter never wraps.
NoUnderflowSimple ==
  variant = "simple" =>
     /\ \A t \in Threads : pc[t] \in {"r_lock", "r_decr"} => current >= 1
     /\ current # UsizeModulus - 1

\* C18 witness: undisciplined callers of simple: one release_one() is
\* about to take the counter from 1 to 0 while another one has started.
NoUnderflowSimpleWitness ==
  /\ variant = "simple" /\ ~disciplined /\ current = 1
  /\ \E t, u \in Callers : pc[t] = "r_decr" /\ pc[u] = "r_get"

\* t asks for the counter mutex of simple.
WantsCounter(t) == pc[t] \in {"w_incr", "r_get", "cc"}

\* t holds the counter mutex of simple and asks for the is_locked mutex.
WantsFlag(t) ==
  \/ pc[t] = "r_lock"
  \/ pc[t] = "w_check" /\ current >= max

\* C19: in the simple variant no thread asks for the counter mutex while it
\* holds the is_locked mutex, the is_locked mutex is only held inside the
\* counter mutex, a parked thread holds neither, and no two threads hold
\* one mutex each while asking for the other.
LockOrder ==
  variant = "simple" =>
     /\ \A t \in Threads : WantsCounter(t) => flagOwner # t
     /\ \A t \in Threads : flagOwner = t => curOwner = t
     /\ \A t \in Threads :
           pc[t] = "w_parked" => (flagOwner # t /\ curOwner # t)
     /\ ~ \E t, u \in Threads :
           /\ flagOwner = t /\ WantsCounter(t)
           /\ curOwner = u /\ WantsFlag(u)

\* C19 witness: a release_one() of simple holds the counter mutex and, inside
\* it, the is_locked mutex, while another thread asks for the counter mutex
\* and a third one is parked.
LockOrderWitness ==
  /\ variant = "simple"
  /\ \E t, u, p \in Threads :
        /\ pc[t] = "r_decr" /\ curOwner = t /\ flagOwner = t
        /\ WantsCounter(u)
        /\ pc[p] = "w_parked"
====
